---------------------------- MODULE Spec2Model ----------------------------
(***************************************************************************)
(* A model of compare.py: the comparison of e10s and non-e10s test        *)
(* results fetched from treeherder.                                        *)
(*                                                                         *)
(* Python strings are sequences of code points, so that concatenation,     *)
(* str.lower, str.title, str.endswith and the ordering used by sorted()    *)
(* are computed as Python computes them.  None is a value that is no       *)
(* string.  A dict is a function, a tuple or list a sequence.              *)
(***************************************************************************)
EXTENDS Integers, Sequences, FiniteSets, TLC

VARIABLES
    \* load_results / ResultHandler
    lr_pc,           \* position in load_results
    n_results,       \* len(results), the jobs of the batch being numbered 1..n_results
    job_idx,         \* the job the loop "for result in results" is at
    job_data,        \* get_blobber_urls: the response of the last artifact request
    urls,            \* the urls of the current job still to be read
    handler_data,    \* ResultHandler.data
    handler_result,  \* ResultHandler.result
    event,           \* the last event the log reader passed to the handler
    n_events,        \* the number of test_end and test_status events passed so far
    n_test_end,      \* per test id, the number of test_end events passed so far
    lr_return,       \* the value load_results returned
    \* compare_results
    cr_pc,           \* position of the call of compare_results
    non_e10s,        \* its first argument
    e10s,            \* its second argument
    differences,     \* the value it returned
    \* compare and output_file
    mode,            \* "live": compare is run; "file": output_file is run
    pc,              \* position in compare or output_file
    results_data,    \* compare: the job list get_job_results returned
    results_by_type, \* compare: the value of group_results_by_type
    todo,            \* the rest of the sorted list the loop over the suites is in
    output_cls,      \* "json", "text" or "html"
    out_branch,      \* Output.branch
    out_commit,      \* Output.commit
    out_data,        \* JSONOutput.data["differences"]
    dest,            \* what was written to Output.dest
    calls,           \* the calls the output object received so far
    by_test,         \* the value of the last call of group_by_test
    report,          \* the report the loaded file was written from
    input_file,      \* output_file: the JSON document of input_file
    of_data          \* output_file: data, once loaded and converted

varsLoad == <<lr_pc, n_results, job_idx, job_data, urls, handler_data,
              handler_result, event, n_events, n_test_end, lr_return>>

varsDiff == <<cr_pc, non_e10s, e10s, differences>>

varsRun == <<mode, pc, results_data, results_by_type, todo, output_cls, out_branch,
             out_commit, out_data, dest, calls, by_test, report, input_file, of_data>>

vars == <<varsLoad, varsDiff, varsRun>>

-----------------------------------------------------------------------------
(* Values *)

None == <<-1>>

NoEvent == [action |-> "none"]

EmptyDict == <<>>

\* " - "
SEP == <<32, 45, 32>>
\* "_raw.log"
RAW_LOG == <<95, 114, 97, 119, 46, 108, 111, 103>>
\* "skip"
SKIP_LOWER == <<115, 107, 105, 112>>

\* "PASS", "FAIL", "SKIP", "Skip"
PASS == <<80, 65, 83, 83>>
FAIL == <<70, 65, 73, 76>>
SKIP == <<83, 75, 73, 80>>
Skip == <<83, 107, 105, 112>>

\* c.lower() and c.upper() of one code point
LowerChar(c) == IF c >= 65 /\ c <= 90 THEN c + 32 ELSE c
UpperChar(c) == IF c >= 97 /\ c <= 122 THEN c - 32 ELSE c
IsAlpha(c) == (c >= 65 /\ c <= 90) \/ (c >= 97 /\ c <= 122)

\* s.lower()
Lower(s) == [i \in 1..Len(s) |-> LowerChar(s[i])]

\* d.get(key, default)
Get(d, key, default) == IF key \in DOMAIN d THEN d[key] ELSE default

\* "%s" % i for an integer i >= 0
RECURSIVE Str(_)
Str(i) == IF i < 10 THEN <<48 + i>> ELSE Str(i \div 10) \o <<48 + (i % 10)>>

\* s.endswith(suffix)
EndsWith(s, suffix) ==
    /\ Len(s) >= Len(suffix)
    /\ SubSeq(s, Len(s) - Len(suffix) + 1, Len(s)) = suffix

-----------------------------------------------------------------------------
(* Bounds and inputs of load_results *)

MaxJobs == 2
MaxEvents == 3

\* test ids "a", "a - 1" and the subtest id "s" of the events
LogTestIds == {<<97>>, <<97, 32, 45, 32, 49>>}
LogSubtestIds == {<<115>>}
LogStatuses == {PASS, FAIL}

\* "u", "v"
URL_U == <<117>>
URL_V == <<118>>
\* "x_raw.log", "x.txt"
VALUE_RAW == <<120, 95, 114, 97, 119, 46, 108, 111, 103>>
VALUE_TXT == <<120, 46, 116, 120, 116>>

JobInfoItem(details) == [blob |-> [job_details |-> details]]

\* What the Job Info artifact request of a job may answer.
JobInfoResponses ==
    { <<>>,
      <<JobInfoItem(<<[value |-> VALUE_RAW, url |-> URL_U]>>)>>,
      <<JobInfoItem(<<[value |-> VALUE_RAW, url |-> URL_U],
                      [value |-> VALUE_TXT, url |-> URL_V]>>)>>,
      <<JobInfoItem(<<[value |-> VALUE_RAW, url |-> URL_U],
                      [value |-> VALUE_RAW, url |-> URL_V]>>)>>,
      <<JobInfoItem(<<[value |-> VALUE_TXT, url |-> URL_U]>>)>>,
      <<JobInfoItem(<<>>)>>,
      <<[name |-> URL_U]>>,
      <<[blob |-> [name |-> URL_U]]>>,
      <<JobInfoItem(<<[url |-> URL_U]>>)>>,
      <<JobInfoItem(<<[value |-> VALUE_RAW]>>)>>,
      <<JobInfoItem(<<[value |-> VALUE_TXT],
                      [value |-> VALUE_RAW, url |-> URL_U]>>)>>,
      <<JobInfoItem(<<[value |-> VALUE_RAW, url |-> URL_U]>>),
        JobInfoItem(<<[value |-> VALUE_RAW, url |-> URL_V]>>)>> }

-----------------------------------------------------------------------------
(* get_blobber_urls *)

\* [item["url"] for item in details if item["value"].endswith("_raw.log")]:
\* the list, and whether a lookup raised
RECURSIVE RawLogUrls(_)
RawLogUrls(details) ==
    IF details = <<>> THEN [raised |-> FALSE, urls |-> <<>>]
    ELSE LET item == Head(details)
             rest == RawLogUrls(Tail(details))
         IN  IF "value" \notin DOMAIN item THEN [raised |-> TRUE, urls |-> <<>>]
             ELSE IF EndsWith(item.value, RAW_LOG)
                  THEN IF "url" \notin DOMAIN item \/ rest.raised
                       THEN [raised |-> TRUE, urls |-> <<>>]
                       ELSE [raised |-> FALSE, urls |-> <<item.url>> \o rest.urls]
                  ELSE rest

ReturnNone == [outcome |-> "None", urls |-> <<>>]

\* The outcome of get_blobber_urls for the response resp: "raise" (the
\* assertion fails), "None" (job_data is empty, or the except clause is
\* taken) or "urls" with the list returned.
GetBlobberUrlsResult(resp) ==
    IF resp = <<>> THEN ReturnNone
    ELSE IF Len(resp) # 1 THEN [outcome |-> "raise", urls |-> <<>>]
    ELSE LET item == resp[1]
         IN  IF "blob" \notin DOMAIN item THEN ReturnNone
             ELSE IF "job_details" \notin DOMAIN item.blob THEN ReturnNone
             ELSE LET r == RawLogUrls(item.blob.job_details)
                  IN  IF r.raised THEN ReturnNone
                      ELSE [outcome |-> "urls", urls |-> r.urls]

-----------------------------------------------------------------------------
(* ResultHandler *)

\* The while loop of _insert: the first key[idx] + " - %s" % i, i counting
\* up from start, that is not in data.  idx is 1 for the test id and 2 for
\* the subtest id.
RECURSIVE NewKey(_, _, _, _)
NewKey(data, key, idx, i) ==
    LET possibility == key[idx] \o SEP \o Str(i)
        new_key == [key EXCEPT ![idx] = possibility]
    IN  IF new_key \notin DOMAIN data THEN new_key
        ELSE NewKey(data, key, idx, i + 1)

\* _insert with the counter i starting one too low
InsertKeyFromZero(data, key) ==
    IF key \in DOMAIN data
    THEN LET idx == IF key[2] # None THEN 2 ELSE 1
         IN  NewKey(data, key, idx, 0)
    ELSE key

\* The key _insert stores the status under.
InsertKey(data, key) ==
    IF key \in DOMAIN data
    THEN LET idx == IF key[2] # None THEN 2 ELSE 1
         IN  NewKey(data, key, idx, 1)
    ELSE key

\* _insert without the search for a free key
InsertOverwriting(data, key, status, result) ==
    [x \in DOMAIN data \cup {key} |->
        IF x = key THEN <<status, result>> ELSE data[x]]

\* ResultHandler._insert: data after self.data[key] = (status, self.result)
Insert(data, key, status, result) ==
    LET k == InsertKey(data, key)
    IN  [x \in DOMAIN data \cup {k} |->
            IF x = k THEN <<status, result>> ELSE data[x]]

-----------------------------------------------------------------------------
(* load_results *)

IdleDiff ==
    /\ cr_pc = "idle"
    /\ non_e10s = EmptyDict
    /\ e10s = EmptyDict
    /\ differences = EmptyDict

NoReport == [branch |-> <<>>, commit |-> <<>>, differences |-> EmptyDict]

IdleRun ==
    /\ mode = "idle"
    /\ pc = "idle"
    /\ results_data = <<>>
    /\ results_by_type = EmptyDict
    /\ todo = <<>>
    /\ output_cls = "json"
    /\ out_branch = <<>>
    /\ out_commit = <<>>
    /\ out_data = EmptyDict
    /\ dest = <<>>
    /\ calls = <<>>
    /\ by_test = EmptyDict
    /\ report = NoReport
    /\ input_file = NoReport
    /\ of_data = EmptyDict

InitLoad ==
    /\ IdleDiff
    /\ IdleRun
    /\ lr_pc = "for_result"
    /\ n_results \in 0..MaxJobs
    /\ job_idx = 1
    /\ job_data = <<>>
    /\ urls = <<>>
    /\ handler_data = EmptyDict
    /\ handler_result = None
    /\ event = NoEvent
    /\ n_events = 0
    /\ n_test_end = [t \in LogTestIds |-> 0]
    /\ lr_return = EmptyDict

\* urls = get_blobber_urls(branch, result); if urls: ...
GetBlobberUrls ==
    /\ UNCHANGED <<varsDiff, varsRun>>
    /\ lr_pc = "for_result"
    /\ job_idx <= n_results
    /\ \E resp \in JobInfoResponses :
         LET r == GetBlobberUrlsResult(resp)
         IN  /\ job_data' = resp
             /\ urls' = r.urls
             /\ IF r.outcome = "raise"
                THEN lr_pc' = "raised" /\ UNCHANGED job_idx
                ELSE IF r.outcome = "urls" /\ r.urls # <<>>
                THEN lr_pc' = "for_url" /\ UNCHANGED job_idx
                ELSE lr_pc' = "for_result" /\ job_idx' = job_idx + 1
    /\ UNCHANGED <<n_results, handler_data, handler_result, event, n_events, n_test_end,
                   lr_return>>

\* f = get_file(url); handler.result = result; reader.handle_log(...)
HandleLog ==
    /\ UNCHANGED <<varsDiff, varsRun>>
    /\ lr_pc = "for_url"
    /\ urls # <<>>
    /\ urls' = Tail(urls)
    /\ handler_result' = job_idx
    /\ lr_pc' = "handle_log"
    /\ UNCHANGED <<n_results, job_idx, job_data, handler_data, event, n_events,
                   n_test_end, lr_return>>

\* ResultHandler.test_end
TestEnd ==
    /\ UNCHANGED <<varsDiff, varsRun>>
    /\ lr_pc = "handle_log"
    /\ n_events < MaxEvents
    /\ \E test \in LogTestIds, status \in LogStatuses :
         /\ event' = [action |-> "test_end", test |-> test, subtest |-> None,
                      status |-> status]
         /\ handler_data' = Insert(handler_data, <<test, None>>, status, handler_result)
         /\ n_test_end' = [n_test_end EXCEPT ![test] = @ + 1]
    /\ n_events' = n_events + 1
    /\ UNCHANGED <<lr_pc, n_results, job_idx, job_data, urls, handler_result, lr_return>>

\* ResultHandler.test_status
TestStatus ==
    /\ UNCHANGED <<varsDiff, varsRun>>
    /\ lr_pc = "handle_log"
    /\ n_events < MaxEvents
    /\ \E test \in LogTestIds, subtest \in LogSubtestIds, status \in LogStatuses :
         /\ event' = [action |-> "test_status", test |-> test, subtest |-> subtest,
                      status |-> status]
         /\ handler_data' = Insert(handler_data, <<test, subtest>>, status, handler_result)
    /\ n_events' = n_events + 1
    /\ UNCHANGED n_test_end
    /\ UNCHANGED <<lr_pc, n_results, job_idx, job_data, urls, handler_result, lr_return>>

\* The log is read to its end: the next url, or the next job.
EndOfLog ==
    /\ UNCHANGED <<varsDiff, varsRun>>
    /\ lr_pc = "handle_log"
    /\ IF urls # <<>>
       THEN lr_pc' = "for_url" /\ UNCHANGED job_idx
       ELSE lr_pc' = "for_result" /\ job_idx' = job_idx + 1
    /\ UNCHANGED <<n_results, job_data, urls, handler_data, handler_result, event,
                   n_events, n_test_end, lr_return>>

\* return {key: value[0] for key, value in handler.data.iteritems()}
LoadResultsReturn ==
    /\ UNCHANGED <<varsDiff, varsRun>>
    /\ lr_pc = "for_result"
    /\ job_idx > n_results
    /\ lr_return' = [key \in DOMAIN handler_data |-> handler_data[key][1]]
    /\ lr_pc' = "returned"
    /\ UNCHANGED <<n_results, job_idx, job_data, urls, handler_data, handler_result,
                   event, n_events, n_test_end>>

NextLoad ==
    \/ GetBlobberUrls
    \/ HandleLog
    \/ TestEnd
    \/ TestStatus
    \/ EndOfLog
    \/ LoadResultsReturn

SpecLoad == InitLoad /\ [][NextLoad]_vars

-----------------------------------------------------------------------------
(* Properties of load_results and ResultHandler *)

\* The keys a step added to ResultHandler.data
AddedKeys == DOMAIN handler_data' \ DOMAIN handler_data

IsEventStep == n_events' = n_events + 1

\* C1: every test_end or test_status event adds exactly one new entry to the
\* status map and leaves the key and status of every entry already present
\* as they were: after n events the map holds n entries, and so does the map
\* load_results returns.
C1_EveryEventAddsOneEntry ==
    /\ [](Cardinality(DOMAIN handler_data) = n_events)
    /\ [](lr_pc = "returned" =>
            /\ DOMAIN lr_return = DOMAIN handler_data
            /\ \A k \in DOMAIN lr_return : lr_return[k] = handler_data[k][1])
    /\ [][/\ \A k \in DOMAIN handler_data :
                k \in DOMAIN handler_data' /\ handler_data'[k] = handler_data[k]
          /\ IsEventStep => Cardinality(AddedKeys) = 1]_vars

\* Three events from two jobs are in the map, one of them under a key that
\* no event carried.
C1_Witness ==
    /\ n_events = 3
    /\ \E k1, k2 \in DOMAIN handler_data : handler_data[k1][2] # handler_data[k2][2]
    /\ \E k \in DOMAIN handler_data : k[1] \notin LogTestIds

\* key with " - i" appended to the subtest id when there is one, and to the
\* test id otherwise
Suffixed(key, i) ==
    IF key[2] # None THEN <<key[1], key[2] \o SEP \o Str(i)>>
    ELSE <<key[1] \o SEP \o Str(i), None>>

EventKey(e) == <<e.test, e.subtest>>

\* The least i >= 1 for which Suffixed(key, i) is not a key of data
LeastFree(data, key) ==
    CHOOSE i \in 1..(Cardinality(DOMAIN data) + 1) :
        /\ Suffixed(key, i) \notin DOMAIN data
        /\ \A j \in 1..(i - 1) : Suffixed(key, j) \in DOMAIN data

\* The collision rule: an event whose key is in the map is stored under the
\* key with the least free " - i"; any other event under its own key.
CollisionRule ==
    IsEventStep =>
        LET key == EventKey(event')
            stored == IF key \in DOMAIN handler_data
                      THEN Suffixed(key, LeastFree(handler_data, key))
                      ELSE key
        IN  /\ AddedKeys = {stored}
            /\ handler_data'[stored][1] = event'.status

IsTestEndStep(t, nth) ==
    /\ IsEventStep
    /\ event'.action = "test_end"
    /\ event'.test = t
    /\ n_test_end[t] = nth - 1

\* No test id that had a test_end event is another such test id followed by
\* " - n".
NoSuffixedTestId(count) ==
    \A t1, t2 \in LogTestIds : \A n \in 1..(MaxEvents + 1) :
        count[t1] > 0 /\ count[t2] > 0 => t2 # t1 \o SEP \o Str(n)

\* C4 as stated: the collision rule, and with it the second test_end event
\* for a test id is stored under the " - 1" key and the third under " - 2".
C4_SecondAndThirdLandOnOneAndTwo ==
    [][/\ CollisionRule
       /\ \A t \in LogTestIds :
            /\ IsTestEndStep(t, 2) => AddedKeys = {<<t \o SEP \o Str(1), None>>}
            /\ IsTestEndStep(t, 3) => AddedKeys = {<<t \o SEP \o Str(2), None>>}]_vars

\* C4, amended: the collision rule; the second test_end event for a test id
\* is stored under the " - 1" key and the third under " - 2" when no test id
\* of the test_end events is another one of them followed by " - n".
C4_CollisionRule ==
    [][/\ CollisionRule
       /\ \A t \in LogTestIds :
            NoSuffixedTestId(n_test_end') =>
                /\ IsTestEndStep(t, 2) => AddedKeys = {<<t \o SEP \o Str(1), None>>}
                /\ IsTestEndStep(t, 3) => AddedKeys = {<<t \o SEP \o Str(2), None>>}]_vars

\* A third test_end event for one test id has been stored, and a test_status
\* event under a suffixed subtest id.
C4_Witness ==
    \/ /\ \E t \in LogTestIds : n_test_end[t] = 3
       /\ NoSuffixedTestId(n_test_end)
    \/ /\ event.action = "test_status"
       /\ \E k \in DOMAIN handler_data : k[2] # None /\ k[2] \notin LogSubtestIds

\* The artifact metadata is missing or malformed: an empty response, a list
\* that does not hold exactly one item, an item without blob/job_details, a
\* detail item without value or url.
Malformed(resp) ==
    \/ resp = <<>>
    \/ Len(resp) # 1
    \/ "blob" \notin DOMAIN resp[1]
    \/ "job_details" \notin DOMAIN resp[1].blob
    \/ \E i \in DOMAIN resp[1].blob.job_details :
         LET item == resp[1].blob.job_details[i]
         IN  "value" \notin DOMAIN item \/ "url" \notin DOMAIN item

\* C6: when the artifact metadata of a job is missing or malformed,
\* get_blobber_urls raises nothing, the job adds no entry to the status map
\* (no log of it is read) and load_results goes on to the next job.
C6_MalformedMetadataIsAbsorbed ==
    [][(lr_pc = "for_result" /\ job_idx <= n_results /\ Malformed(job_data')) =>
          /\ lr_pc' = "for_result"
          /\ job_idx' = job_idx + 1
          /\ handler_data' = handler_data]_vars

-----------------------------------------------------------------------------
(* compare_results *)

MaxEntries == 2

\* "b.html", "a.html", "sub1"
B_HTML == <<98, 46, 104, 116, 109, 108>>
A_HTML == <<97, 46, 104, 116, 109, 108>>
SUB1 == <<115, 117, 98, 49>>

DiffKeys == {B_HTML, A_HTML} \X {None, SUB1}
DiffStatuses == {PASS, SKIP, Skip}

\* The status maps of at most MaxEntries entries
StatusMaps ==
    UNION {[ks -> DiffStatuses] : ks \in {x \in SUBSET DiffKeys : Cardinality(x) <= MaxEntries}}

\* compare_results with the parent looked up in the map the key came from
CompareResultsSameSide(non, e) ==
    LET first == {key \in DOMAIN e :
                    IF key \notin DOMAIN non
                    THEN key[2] = None \/ Lower(Get(e, <<key[1], None>>, <<>>)) # SKIP_LOWER
                    ELSE non[key] # e[key]}
        second == {key \in DOMAIN non :
                    /\ key \notin DOMAIN e
                    /\ key[2] = None \/ Lower(Get(non, <<key[1], None>>, <<>>)) # SKIP_LOWER}
    IN  [key \in first \cup second |->
            IF key \in second THEN <<non[key], None>>
            ELSE IF key \notin DOMAIN non THEN <<None, e[key]>>
            ELSE <<non[key], e[key]>>]

\* compare_results without the .lower() of the parent's status
CompareResultsCaseSensitive(non, e) ==
    LET first == {key \in DOMAIN e :
                    IF key \notin DOMAIN non
                    THEN key[2] = None \/ Get(non, <<key[1], None>>, <<>>) # SKIP_LOWER
                    ELSE non[key] # e[key]}
        second == {key \in DOMAIN non :
                    /\ key \notin DOMAIN e
                    /\ key[2] = None \/ Get(e, <<key[1], None>>, <<>>) # SKIP_LOWER}
    IN  [key \in first \cup second |->
            IF key \in second THEN <<non[key], None>>
            ELSE IF key \notin DOMAIN non THEN <<None, e[key]>>
            ELSE <<non[key], e[key]>>]

\* compare_results(non_e10s, e10s).  first holds the keys the loop over e10s
\* assigns, second the keys the loop over non_e10s assigns; no key is in
\* both, so the order in which the dicts are iterated does not show.
CompareResults(non, e) ==
    LET first == {key \in DOMAIN e :
                    IF key \notin DOMAIN non
                    THEN key[2] = None \/ Lower(Get(non, <<key[1], None>>, <<>>)) # SKIP_LOWER
                    ELSE non[key] # e[key]}
        second == {key \in DOMAIN non :
                    /\ key \notin DOMAIN e
                    /\ key[2] = None \/ Lower(Get(e, <<key[1], None>>, <<>>)) # SKIP_LOWER}
    IN  [key \in first \cup second |->
            IF key \in second THEN <<non[key], None>>
            ELSE IF key \notin DOMAIN non THEN <<None, e[key]>>
            ELSE <<non[key], e[key]>>]

IdleLoad ==
    /\ lr_pc = "idle"
    /\ n_results = 0
    /\ job_idx = 1
    /\ job_data = <<>>
    /\ urls = <<>>
    /\ handler_data = EmptyDict
    /\ handler_result = None
    /\ event = NoEvent
    /\ n_events = 0
    /\ n_test_end = [t \in LogTestIds |-> 0]
    /\ lr_return = EmptyDict

InitDiff ==
    /\ IdleLoad
    /\ IdleRun
    /\ cr_pc = "call"
    /\ non_e10s \in StatusMaps
    /\ e10s \in StatusMaps
    /\ differences = EmptyDict

CompareResultsCall ==
    /\ cr_pc = "call"
    /\ differences' = CompareResults(non_e10s, e10s)
    /\ cr_pc' = "returned"
    /\ UNCHANGED <<non_e10s, e10s>>
    /\ UNCHANGED <<varsLoad, varsRun>>

NextDiff == CompareResultsCall

SpecDiff == InitDiff /\ [][NextDiff]_vars

\* s and t are equal ignoring case
EqualIgnoringCase(s, t) ==
    /\ Len(s) = Len(t)
    /\ \A i \in 1..Len(s) : UpperChar(s[i]) = UpperChar(t[i])

\* The parent (test id, None) of key is in map m with a status equal to
\* SKIP ignoring case.
ParentSkipped(m, key) ==
    /\ <<key[1], None>> \in DOMAIN m
    /\ EqualIgnoringCase(m[<<key[1], None>>], SKIP)

\* What the claim gives for key k: the entry, or NoEntry.
NoEntry == <<>>
ExpectedEntry(A, B, k) ==
    IF k \in DOMAIN A /\ k \in DOMAIN B
    THEN IF A[k] # B[k] THEN <<A[k], B[k]>> ELSE NoEntry
    ELSE IF k \in DOMAIN B
    THEN IF k[2] # None /\ ParentSkipped(A, k) THEN NoEntry ELSE <<None, B[k]>>
    ELSE IF k \in DOMAIN A
    THEN IF k[2] # None /\ ParentSkipped(B, k) THEN NoEntry ELSE <<A[k], None>>
    ELSE NoEntry

\* C2: compare_results(A, B) is exactly the map that gives [A[k], B[k]] to a
\* key of both with different statuses, [None, B[k]] to a key of B alone and
\* [A[k], None] to a key of A alone, except a subtest key whose whole-test
\* key is in the other map with status SKIP in any case; it has no other
\* entry.
C2_CompareResultsIsTheDifferenceMap ==
    cr_pc = "returned" =>
        /\ DOMAIN differences \subseteq DOMAIN non_e10s \cup DOMAIN e10s
        /\ \A k \in DiffKeys :
             IF ExpectedEntry(non_e10s, e10s, k) = NoEntry
             THEN k \notin DOMAIN differences
             ELSE k \in DOMAIN differences
                  /\ differences[k] = ExpectedEntry(non_e10s, e10s, k)

\* A subtest was left out because its test is skipped (written Skip) in the
\* other map, while another key is reported.
C2_Witness ==
    /\ cr_pc = "returned"
    /\ \E k \in DOMAIN e10s :
         /\ k[2] # None
         /\ k \notin DOMAIN non_e10s
         /\ <<k[1], None>> \in DOMAIN non_e10s
         /\ non_e10s[<<k[1], None>>] = Skip
         /\ k \notin DOMAIN differences
    /\ differences # EmptyDict

IsScenarioC3 ==
    /\ cr_pc = "returned"
    /\ non_e10s = (<<B_HTML, None>> :> SKIP)
    /\ e10s = (<<B_HTML, SUB1>> :> PASS)

\* C3 as stated: with non_e10s = {("b.html", None): SKIP} and
\* e10s = {("b.html", "sub1"): PASS}, compare_results returns no entry whose
\* test id is "b.html".
C3_NoEntryForSkippedTest ==
    IsScenarioC3 => \A k \in DOMAIN differences : k[1] # B_HTML

\* C3, amended: in that scenario compare_results returns no entry for the
\* subtest key ("b.html", "sub1"), and the entry [SKIP, None] for the
\* whole-test key ("b.html", None), which only non_e10s holds.
C3_OnlyTheSubtestIsSuppressed ==
    IsScenarioC3 =>
        /\ <<B_HTML, SUB1>> \notin DOMAIN differences
        /\ differences = (<<B_HTML, None>> :> <<SKIP, None>>)

C3_Witness == IsScenarioC3 /\ DOMAIN differences = {<<B_HTML, None>>}

-----------------------------------------------------------------------------
(* The order sorted() uses *)

\* s < t for two strings
StrLess(s, t) ==
    \E i \in 1..(Len(s) + 1) :
        /\ \A j \in 1..(i - 1) : j <= Len(t) /\ s[j] = t[j]
        /\ \/ i = Len(s) + 1 /\ Len(t) >= i
           \/ i <= Len(s) /\ i <= Len(t) /\ s[i] < t[i]

\* a < b where each is a string or None: None is less than every string
OptLess(a, b) ==
    IF a = None THEN b # None
    ELSE IF b = None THEN FALSE
    ELSE StrLess(a, b)

\* k1 < k2 for two (test, subtest) tuples
KeyLess(k1, k2) ==
    \/ StrLess(k1[1], k2[1])
    \/ k1[1] = k2[1] /\ OptLess(k1[2], k2[2])

\* The greatest string first
RECURSIVE SortedDescending(_)
SortedDescending(S) ==
    IF S = {} THEN <<>>
    ELSE LET m == CHOOSE x \in S : \A y \in S : y = x \/ StrLess(y, x)
         IN  <<m>> \o SortedDescending(S \ {m})

\* sorted(d.iteritems()) for a dict with the strings S as keys: the keys in
\* the order of the list (no two items have the same key, so the values are
\* never compared)
RECURSIVE Sorted(_)
Sorted(S) ==
    IF S = {} THEN <<>>
    ELSE LET m == CHOOSE x \in S : \A y \in S : y = x \/ StrLess(x, y)
         IN  <<m>> \o Sorted(S \ {m})

\* sorted(by_test.iteritems()): the (test, subtest) keys in the order of the list
RECURSIVE SortedKeys(_)
SortedKeys(S) ==
    IF S = {} THEN <<>>
    ELSE LET m == CHOOSE x \in S : \A y \in S : y = x \/ KeyLess(x, y)
         IN  <<m>> \o SortedKeys(S \ {m})

\* The orders in which the keys S of a dict may be iterated
Orders(S) ==
    {o \in [1..Cardinality(S) -> S] : \A x \in S : \E i \in DOMAIN o : o[i] = x}

-----------------------------------------------------------------------------
(* JOB_NAMES and group_results_by_type *)

\* The suite names of JOB_NAMES
\* "mochitest-bc"
MOCHITEST_BC == <<109, 111, 99, 104, 105, 116, 101, 115, 116, 45, 98, 99>>
\* "mochitest-devtools"
MOCHITEST_DEVTOOLS == <<109, 111, 99, 104, 105, 116, 101, 115, 116, 45, 100, 101, 118, 116, 111, 111, 108, 115>>
\* "mochitest-other"
MOCHITEST_OTHER == <<109, 111, 99, 104, 105, 116, 101, 115, 116, 45, 111, 116, 104, 101, 114>>
\* "mochitest-gl"
MOCHITEST_GL == <<109, 111, 99, 104, 105, 116, 101, 115, 116, 45, 103, 108>>
\* "mochitest-plain"
MOCHITEST_PLAIN == <<109, 111, 99, 104, 105, 116, 101, 115, 116, 45, 112, 108, 97, 105, 110>>
\* "wpt-reftest"
WPT_REFTEST == <<119, 112, 116, 45, 114, 101, 102, 116, 101, 115, 116>>
\* "wpt"
WPT == <<119, 112, 116>>

\* The job type names of JOB_NAMES, in the order of the source
\* "Mochitest e10s Browser Chrome"
JOB_MOCHITEST_E10S_BROWSER_CHROME ==
    <<77, 111, 99, 104, 105, 116, 101, 115, 116, 32, 101, 49, 48, 115, 32, 66, 114, 111, 119, 115, 101, 114, 32, 67, 104, 114, 111, 109, 101>>
\* "Mochitest e10s Browser DevTools Chrome"
JOB_MOCHITEST_E10S_BROWSER_DEVTOOLS_CHROME ==
    <<77, 111, 99, 104, 105, 116, 101, 115, 116, 32, 101, 49, 48, 115, 32, 66, 114, 111, 119, 115, 101, 114, 32, 68, 101, 118, 84, 111, 111, 108, 115, 32, 67, 104, 114, 111, 109, 101>>
\* "Mochitest e10s Other"
JOB_MOCHITEST_E10S_OTHER ==
    <<77, 111, 99, 104, 105, 116, 101, 115, 116, 32, 101, 49, 48, 115, 32, 79, 116, 104, 101, 114>>
\* "Mochitest e10s WebGL"
JOB_MOCHITEST_E10S_WEBGL ==
    <<77, 111, 99, 104, 105, 116, 101, 115, 116, 32, 101, 49, 48, 115, 32, 87, 101, 98, 71, 76>>
\* "Mochitest e10s"
JOB_MOCHITEST_E10S ==
    <<77, 111, 99, 104, 105, 116, 101, 115, 116, 32, 101, 49, 48, 115>>
\* "Mochitest Browser Chrome"
JOB_MOCHITEST_BROWSER_CHROME ==
    <<77, 111, 99, 104, 105, 116, 101, 115, 116, 32, 66, 114, 111, 119, 115, 101, 114, 32, 67, 104, 114, 111, 109, 101>>
\* "Mochitest Browser DevTools Chrome"
JOB_MOCHITEST_BROWSER_DEVTOOLS_CHROME ==
    <<77, 111, 99, 104, 105, 116, 101, 115, 116, 32, 66, 114, 111, 119, 115, 101, 114, 32, 68, 101, 118, 84, 111, 111, 108, 115, 32, 67, 104, 114, 111, 109, 101>>
\* "Mochitest Other"
JOB_MOCHITEST_OTHER ==
    <<77, 111, 99, 104, 105, 116, 101, 115, 116, 32, 79, 116, 104, 101, 114>>
\* "Mochitest WebGL"
JOB_MOCHITEST_WEBGL ==
    <<77, 111, 99, 104, 105, 116, 101, 115, 116, 32, 87, 101, 98, 71, 76>>
\* "Mochitest"
JOB_MOCHITEST ==
    <<77, 111, 99, 104, 105, 116, 101, 115, 116>>
\* "W3C Web Platform Reftests e10s"
JOB_W3C_WEB_PLATFORM_REFTESTS_E10S ==
    <<87, 51, 67, 32, 87, 101, 98, 32, 80, 108, 97, 116, 102, 111, 114, 109, 32, 82, 101, 102, 116, 101, 115, 116, 115, 32, 101, 49, 48, 115>>
\* "W3C Web Platform Tests e10s"
JOB_W3C_WEB_PLATFORM_TESTS_E10S ==
    <<87, 51, 67, 32, 87, 101, 98, 32, 80, 108, 97, 116, 102, 111, 114, 109, 32, 84, 101, 115, 116, 115, 32, 101, 49, 48, 115>>
\* "W3C Web Platform Reftests"
JOB_W3C_WEB_PLATFORM_REFTESTS ==
    <<87, 51, 67, 32, 87, 101, 98, 32, 80, 108, 97, 116, 102, 111, 114, 109, 32, 82, 101, 102, 116, 101, 115, 116, 115>>
\* "W3C Web Platform Tests"
JOB_W3C_WEB_PLATFORM_TESTS ==
    <<87, 51, 67, 32, 87, 101, 98, 32, 80, 108, 97, 116, 102, 111, 114, 109, 32, 84, 101, 115, 116, 115>>

JOB_NAMES ==
    (JOB_MOCHITEST_E10S_BROWSER_CHROME :> <<MOCHITEST_BC, TRUE>>) @@
    (JOB_MOCHITEST_E10S_BROWSER_DEVTOOLS_CHROME :> <<MOCHITEST_DEVTOOLS, TRUE>>) @@
    (JOB_MOCHITEST_E10S_OTHER :> <<MOCHITEST_OTHER, TRUE>>) @@
    (JOB_MOCHITEST_E10S_WEBGL :> <<MOCHITEST_GL, TRUE>>) @@
    (JOB_MOCHITEST_E10S :> <<MOCHITEST_PLAIN, TRUE>>) @@
    (JOB_MOCHITEST_BROWSER_CHROME :> <<MOCHITEST_BC, FALSE>>) @@
    (JOB_MOCHITEST_BROWSER_DEVTOOLS_CHROME :> <<MOCHITEST_DEVTOOLS, FALSE>>) @@
    (JOB_MOCHITEST_OTHER :> <<MOCHITEST_OTHER, FALSE>>) @@
    (JOB_MOCHITEST_WEBGL :> <<MOCHITEST_GL, FALSE>>) @@
    (JOB_MOCHITEST :> <<MOCHITEST_PLAIN, FALSE>>) @@
    (JOB_W3C_WEB_PLATFORM_REFTESTS_E10S :> <<WPT_REFTEST, TRUE>>) @@
    (JOB_W3C_WEB_PLATFORM_TESTS_E10S :> <<WPT, TRUE>>) @@
    (JOB_W3C_WEB_PLATFORM_REFTESTS :> <<WPT_REFTEST, FALSE>>) @@
    (JOB_W3C_WEB_PLATFORM_TESTS :> <<WPT, FALSE>>)

\* " "
SPACE == <<32>>

\* platform_id of group_results_by_type without the platform option
PlatformIdWithoutOption(result) == result.platform

\* platform_id of group_results_by_type
PlatformId(result) ==
    IF result.platform_option # <<>>
    THEN result.platform \o SPACE \o result.platform_option
    ELSE result.platform

\* results_by_type after one turn of the loop of group_results_by_type.
\* The pair of lists of a platform is <<non-e10s jobs, e10s jobs>>: index
\* int(e10s) of the source is index int(e10s) + 1 here.
AddResult(rbt, result) ==
    IF result.job_type_name \in DOMAIN JOB_NAMES
    THEN LET platform_id == PlatformId(result)
             category == JOB_NAMES[result.job_type_name][1]
             idx == IF JOB_NAMES[result.job_type_name][2] THEN 2 ELSE 1
             by_platform == Get(rbt, category, EmptyDict)
             lists == Get(by_platform, platform_id, <<<<>>, <<>>>>)
             new_lists == [lists EXCEPT ![idx] = Append(@, result)]
             new_by_platform ==
                 [p \in DOMAIN by_platform \cup {platform_id} |->
                     IF p = platform_id THEN new_lists ELSE by_platform[p]]
         IN  [c \in DOMAIN rbt \cup {category} |->
                 IF c = category THEN new_by_platform ELSE rbt[c]]
    ELSE rbt

RECURSIVE GroupResults(_, _)
GroupResults(job_list, rbt) ==
    IF job_list = <<>> THEN rbt
    ELSE GroupResults(Tail(job_list), AddResult(rbt, Head(job_list)))

\* group_results_by_type(job_data)
GroupResultsByType(job_list) == GroupResults(job_list, EmptyDict)

-----------------------------------------------------------------------------
(* group_by_test *)

\* by_test after the inner loop of group_by_test for one platform: platform
\* is appended to by_test[test][tuple(results)] for every test of differences.
\* Each test is a key of differences once, so the order of the inner loop
\* does not show.
AddPlatform(bt, platform, diffs) ==
    [test \in DOMAIN bt \cup DOMAIN diffs |->
        LET old == Get(bt, test, EmptyDict)
        IN  IF test \notin DOMAIN diffs THEN old
            ELSE LET results == diffs[test]
                 IN  [pair \in DOMAIN old \cup {results} |->
                         IF pair = results
                         THEN Append(Get(old, results, <<>>), platform)
                         ELSE old[pair]]]

RECURSIVE GroupPlatforms(_, _, _)
GroupPlatforms(by_platform, order, bt) ==
    IF order = <<>> THEN bt
    ELSE GroupPlatforms(by_platform, Tail(order),
                        AddPlatform(bt, Head(order), by_platform[Head(order)]))

\* group_by_test(by_platform), by_platform.iteritems() giving the platforms
\* in the order `order`
GroupByTest(by_platform, order) == GroupPlatforms(by_platform, order, EmptyDict)

-----------------------------------------------------------------------------
(* TextOutput and HTMLOutput *)

\* "No logs found", "No differences found", "<missing>", "&lt;missing>", ", "
NO_LOGS_FOUND == <<78, 111, 32, 108, 111, 103, 115, 32, 102, 111, 117, 110, 100>>
NO_DIFFERENCES_FOUND ==
    <<78, 111, 32, 100, 105, 102, 102, 101, 114, 101, 110, 99, 101, 115, 32, 102, 111, 117, 110, 100>>
MISSING_TEXT == <<60, 109, 105, 115, 115, 105, 110, 103, 62>>
MISSING_HTML == <<38, 108, 116, 59, 109, 105, 115, 115, 105, 110, 103, 62>>
COMMA_SPACE == <<44, 32>>

\* s.title()
Title(s) ==
    [i \in 1..Len(s) |->
        IF i = 1 \/ ~IsAlpha(s[i - 1]) THEN UpperChar(s[i]) ELSE LowerChar(s[i])]

\* sep.join(items)
RECURSIVE Join(_, _)
Join(sep, items) ==
    IF items = <<>> THEN <<>>
    ELSE IF Len(items) = 1 THEN items[1]
    ELSE items[1] \o sep \o Join(sep, Tail(items))

\* TextOutput.format_result and HTMLOutput.format_result
FormatResult(cls, result) ==
    IF result = None THEN (IF cls = "html" THEN MISSING_HTML ELSE MISSING_TEXT)
    ELSE Title(result)

\* The items of dict d in the order the ranking rank gives its keys
RECURSIVE Restrict(_, _)
Restrict(rank, S) ==
    IF rank = <<>> THEN <<>>
    ELSE IF Head(rank) \in S THEN <<Head(rank)>> \o Restrict(Tail(rank), S)
    ELSE Restrict(Tail(rank), S)

\* What the templates of one test are filled with: one row for each
\* (non_e10s, e10s) pair of results, in the order results.iteritems() gives.
TestRows(cls, key, results, pairs) ==
    [i \in 1..Len(pairs) |->
        LET data == [test |-> key[1],
                     subtest |-> IF key[2] # None THEN key[2] ELSE <<>>,
                     result_non_e10s |-> FormatResult(cls, pairs[i][1]),
                     result_e10s |-> FormatResult(cls, pairs[i][2]),
                     num_results |-> Cardinality(DOMAIN results),
                     platforms |-> Join(COMMA_SPACE, results[pairs[i]])]
        IN  IF cls = "html"
            THEN IF i = 1
                 THEN [kind |-> "first_row", test |-> data.test, subtest |-> data.subtest,
                       rowspan |-> data.num_results,
                       result_non_e10s |-> data.result_non_e10s,
                       result_e10s |-> data.result_e10s, platforms |-> data.platforms]
                 ELSE [kind |-> "latter_row",
                       result_non_e10s |-> data.result_non_e10s,
                       result_e10s |-> data.result_e10s, platforms |-> data.platforms]
            ELSE [kind |-> "row", test |-> data.test, subtest |-> data.subtest,
                  result_non_e10s |-> data.result_non_e10s,
                  result_e10s |-> data.result_e10s, platforms |-> data.platforms]]

\* The loop over sorted(by_test.iteritems()) of the write methods
RECURSIVE Rows(_, _, _, _)
Rows(cls, bt, keys, pair_rank) ==
    IF keys = <<>> THEN <<>>
    ELSE LET key == Head(keys)
             rows == TestRows(cls, key, bt[key], Restrict(pair_rank, DOMAIN bt[key]))
         IN  rows \o (IF cls = "html" THEN <<>> ELSE <<[kind |-> "blank"]>>)
                  \o Rows(cls, bt, Tail(keys), pair_rank)

\* The write methods without the test "if not by_platform"
WrittenWithoutNoLogs(cls, job_type_name, by_platform, bt, pair_rank) ==
    LET heading == IF cls = "html" THEN [kind |-> "h2", text |-> job_type_name]
                   ELSE [kind |-> "heading", text |-> job_type_name,
                         underline |-> Len(job_type_name)]
        line(text) == IF cls = "html" THEN [kind |-> "p", text |-> text]
                      ELSE [kind |-> "line", text |-> text]
    IN  IF \A p \in DOMAIN by_platform : DOMAIN by_platform[p] = {}
        THEN <<heading, line(NO_DIFFERENCES_FOUND)>>
        ELSE IF cls = "html"
        THEN <<heading, [kind |-> "table_start"]>>
             \o Rows(cls, bt, SortedKeys(DOMAIN bt), pair_rank)
             \o <<[kind |-> "table_end"]>>
        ELSE <<heading>> \o Rows(cls, bt, SortedKeys(DOMAIN bt), pair_rank)

\* What TextOutput.write (cls = "text") and HTMLOutput.write (cls = "html")
\* write to dest, bt being the value of group_by_test(by_platform).
Written(cls, job_type_name, by_platform, bt, pair_rank) ==
    LET heading == IF cls = "html" THEN [kind |-> "h2", text |-> job_type_name]
                   ELSE [kind |-> "heading", text |-> job_type_name,
                         underline |-> Len(job_type_name)]
        line(text) == IF cls = "html" THEN [kind |-> "p", text |-> text]
                      ELSE [kind |-> "line", text |-> text]
    IN  IF DOMAIN by_platform = {}
        THEN <<heading, line(NO_LOGS_FOUND)>>
        ELSE IF \A p \in DOMAIN by_platform : DOMAIN by_platform[p] = {}
        THEN <<heading, line(NO_DIFFERENCES_FOUND)>>
        ELSE IF cls = "html"
        THEN <<heading, [kind |-> "table_start"]>>
             \o Rows(cls, bt, SortedKeys(DOMAIN bt), pair_rank)
             \o <<[kind |-> "table_end"]>>
        ELSE <<heading>> \o Rows(cls, bt, SortedKeys(DOMAIN bt), pair_rank)

-----------------------------------------------------------------------------
(* JSONOutput and the JSON document *)

\* JSON: an array is tagged, null is no string
JArray(s) == [array |-> s]
JNull == <<-2>>

\* list(value.iteritems()), value.iteritems() giving the keys in the order
\* of key_rank
Items(value, key_rank) ==
    LET keys == Restrict(key_rank, DOMAIN value)
    IN  [i \in 1..Len(keys) |-> <<keys[i], value[keys[i]]>>]

\* JSONOutput.write assigning the whole of data["differences"]
JsonWriteReplacing(data, job_type_name, by_platform, key_rank) ==
    (job_type_name :> [p \in DOMAIN by_platform |-> Items(by_platform[p], key_rank)])

\* JSONOutput.write: data["differences"] after it
JsonWrite(data, job_type_name, by_platform, key_rank) ==
    [name \in DOMAIN data \cup {job_type_name} |->
        IF name = job_type_name
        THEN [p \in DOMAIN by_platform |-> Items(by_platform[p], key_rank)]
        ELSE data[name]]

\* json.dump of a string or None
Encode(x) == IF x = None THEN JNull ELSE x

\* json.load of a string or null
Decode(x) == IF x = JNull THEN None ELSE x

\* json.dump of a list of ((test, subtest), [non_e10s, e10s]) items
EncodeItems(items) ==
    JArray([i \in 1..Len(items) |->
        JArray(<<JArray(<<Encode(items[i][1][1]), Encode(items[i][1][2])>>),
                 JArray(<<Encode(items[i][2][1]), Encode(items[i][2][2])>>)>>)])

\* json.dump(self.data, self.dest): the document
JsonDump(branch, commit, data) ==
    [branch |-> branch,
     commit |-> commit,
     differences |->
        [name \in DOMAIN data |->
            [p \in DOMAIN data[name] |-> EncodeItems(data[name][p])]]]

\* json.load of a list of items: a list of lists
DecodeItems(arr) ==
    [i \in 1..Len(arr.array) |->
        LET item == arr.array[i].array
        IN  << <<Decode(item[1].array[1]), Decode(item[1].array[2])>>,
               <<Decode(item[2].array[1]), Decode(item[2].array[2])>> >>]

\* json.load(input_file)
JsonLoad(doc) ==
    [branch |-> doc.branch,
     commit |-> doc.commit,
     differences |->
        [name \in DOMAIN doc.differences |->
            [p \in DOMAIN doc.differences[name] |->
                DecodeItems(doc.differences[name][p])]]]

\* dict((tuple(item[0]), item[1]) for item in differences): of two items
\* with one key the later one stays
ToDict(items) ==
    [k \in {items[i][1] : i \in 1..Len(items)} |->
        LET last == CHOOSE i \in 1..Len(items) :
                        /\ items[i][1] = k
                        /\ \A j \in (i + 1)..Len(items) : items[j][1] # k
        IN  items[last][2]]

-----------------------------------------------------------------------------
(* compare and output_file *)

MaxJobList == 3
MaxPlatforms == 2

\* "Crashtest", a job type name that JOB_NAMES does not hold
CRASHTEST == <<67, 114, 97, 115, 104, 116, 101, 115, 116>>
\* "linux64", "win", "linux64 debug", "debug"
LINUX64 == <<108, 105, 110, 117, 120, 54, 52>>
WIN == <<119, 105, 110>>
LINUX64_DEBUG == <<108, 105, 110, 117, 120, 54, 52, 32, 100, 101, 98, 117, 103>>
DEBUG == <<100, 101, 98, 117, 103>>
\* The command line: "br", "c1"
BRANCH == <<98, 114>>
COMMIT == <<99, 49>>

OutputClasses == {"json", "text", "html"}

\* The job records get_job_results may return
JobTypeNameInputs ==
    {JOB_W3C_WEB_PLATFORM_TESTS, JOB_W3C_WEB_PLATFORM_TESTS_E10S,
     JOB_W3C_WEB_PLATFORM_REFTESTS_E10S, CRASHTEST}
JobFields == JobTypeNameInputs \X {LINUX64} \X {<<>>, DEBUG}
JobLists ==
    UNION {{[i \in 1..n |-> [id |-> i, job_type_name |-> f[i][1],
                             platform |-> f[i][2], platform_option |-> f[i][3]]] :
              f \in [1..n -> JobFields]} : n \in 0..MaxJobList}

\* What the two calls of load_results for one platform may give: an
\* exception, or the two status maps.
LoadedMaps == {EmptyDict, (<<A_HTML, None>> :> PASS), (<<A_HTML, None>> :> FAIL)}
LoadOutcomes ==
    {[raised |-> TRUE, results |-> <<EmptyDict, EmptyDict>>]} \cup
    {[raised |-> FALSE, results |-> <<a, b>>] : a, b \in LoadedMaps}

\* The reports a file may have been written from
ReportSuites == {WPT, WPT_REFTEST}
ReportPlatforms == {LINUX64, WIN, LINUX64_DEBUG}
ReportDiffs ==
    { EmptyDict,
      (<<A_HTML, None>> :> <<PASS, FAIL>>),
      (<<A_HTML, None>> :> <<None, PASS>>) @@ (<<A_HTML, SUB1>> :> <<SKIP, None>>) }
ByPlatformMaps ==
    UNION {[ps -> ReportDiffs] :
             ps \in {x \in SUBSET ReportPlatforms : Cardinality(x) <= MaxPlatforms}}
Reports ==
    {[branch |-> BRANCH, commit |-> COMMIT, differences |-> d] :
        d \in UNION {[ss -> ByPlatformMaps] : ss \in SUBSET ReportSuites}}

KeysOf(by_platform) == UNION {DOMAIN by_platform[p] : p \in DOMAIN by_platform}
PairsOf(bt) == UNION {DOMAIN bt[t] : t \in DOMAIN bt}

InitLive ==
    /\ mode = "live"
    /\ pc = "group"
    /\ results_data \in JobLists
    /\ output_cls \in OutputClasses
    /\ report = NoReport

InitFile ==
    /\ mode = "file"
    /\ pc = "write_report"
    /\ results_data = <<>>
    /\ output_cls \in OutputClasses
    /\ report \in Reports

Init ==
    /\ IdleLoad
    /\ IdleDiff
    /\ InitLive \/ InitFile
    /\ results_by_type = EmptyDict
    /\ todo = <<>>
    /\ out_branch = <<>>
    /\ out_commit = <<>>
    /\ out_data = EmptyDict
    /\ dest = <<>>
    /\ calls = <<>>
    /\ by_test = EmptyDict
    /\ input_file = NoReport
    /\ of_data = EmptyDict

\* output.start(), and the sorted list the loop that follows goes through
OutputStart(names) ==
    /\ calls' = Append(calls, [op |-> "start"])
    /\ dest' = IF output_cls = "html"
               THEN Append(dest, [kind |-> "head", branch |-> out_branch,
                                  commit |-> out_commit])
               ELSE dest
    /\ todo' = Sorted(names)

\* output.write(job_type_name, by_platform)
OutputWrite(job_type_name, by_platform) ==
    /\ calls' = Append(calls, [op |-> "write", job_type_name |-> job_type_name,
                               by_platform |-> by_platform])
    /\ IF output_cls = "json"
       THEN /\ \E key_rank \in Orders(KeysOf(by_platform)) :
                 out_data' = JsonWrite(out_data, job_type_name, by_platform, key_rank)
            /\ UNCHANGED <<dest, by_test>>
       ELSE IF \E p \in DOMAIN by_platform : DOMAIN by_platform[p] # {}
       THEN /\ \E order \in Orders(DOMAIN by_platform) :
                 LET bt == GroupByTest(by_platform, order)
                 IN  /\ by_test' = bt
                     /\ \E pair_rank \in Orders(PairsOf(bt)) :
                          dest' = dest \o Written(output_cls, job_type_name,
                                                  by_platform, bt, pair_rank)
            /\ UNCHANGED out_data
       ELSE /\ dest' = dest \o Written(output_cls, job_type_name, by_platform,
                                       EmptyDict, <<>>)
            /\ UNCHANGED <<out_data, by_test>>

\* output.end()
OutputEnd ==
    /\ calls' = Append(calls, [op |-> "end"])
    /\ dest' = IF output_cls = "json"
               THEN Append(dest, JsonDump(out_branch, out_commit, out_data))
               ELSE dest

\* compare: output = output_cls(branch, commit, dest);
\* results_by_type = group_results_by_type(get_job_results(branch, commit))
CompareGroup ==
    /\ mode = "live" /\ pc = "group"
    /\ out_branch' = BRANCH
    /\ out_commit' = COMMIT
    /\ results_by_type' = GroupResultsByType(results_data)
    /\ pc' = "start"
    /\ UNCHANGED <<mode, results_data, todo, output_cls, out_data, dest, calls,
                   by_test, report, input_file, of_data>>
    /\ UNCHANGED <<varsLoad, varsDiff>>

\* compare: output.start()
CompareStart ==
    /\ mode = "live" /\ pc = "start"
    /\ OutputStart(DOMAIN results_by_type)
    /\ pc' = "loop"
    /\ UNCHANGED <<mode, results_data, results_by_type, output_cls, out_branch,
                   out_commit, out_data, by_test, report, input_file, of_data>>
    /\ UNCHANGED <<varsLoad, varsDiff>>

\* compare: one turn of the loop over the suites.  by_platform gets {} for a
\* platform with an empty list of jobs, the value of compare_results for a
\* platform of which some job gave results, and no entry for a platform of
\* which no job gave any.  An exception of load_results ends the run.
CompareSuite ==
    /\ mode = "live" /\ pc = "loop"
    /\ todo # <<>>
    /\ LET job_type_name == Head(todo)
           results_by_platform == results_by_type[job_type_name]
           both == {p \in DOMAIN results_by_platform :
                      /\ Len(results_by_platform[p][1]) # 0
                      /\ Len(results_by_platform[p][2]) # 0}
       IN  \E loaded \in [both -> LoadOutcomes] :
             IF \E p \in both : loaded[p].raised
             THEN /\ pc' = "raised"
                  /\ UNCHANGED <<todo, out_data, dest, calls, by_test>>
             ELSE LET by_platform ==
                          [p \in {q \in DOMAIN results_by_platform :
                                    \/ q \notin both
                                    \/ \E i \in 1..2 : DOMAIN loaded[q].results[i] # {}} |->
                              IF p \notin both THEN EmptyDict
                              ELSE CompareResults(loaded[p].results[1],
                                                  loaded[p].results[2])]
                  IN  /\ OutputWrite(job_type_name, by_platform)
                      /\ todo' = Tail(todo)
                      /\ UNCHANGED pc
    /\ UNCHANGED <<mode, results_data, results_by_type, output_cls, out_branch,
                   out_commit, report, input_file, of_data>>
    /\ UNCHANGED <<varsLoad, varsDiff>>

\* compare: output.end()
CompareEnd ==
    /\ mode = "live" /\ pc = "loop"
    /\ todo = <<>>
    /\ OutputEnd
    /\ pc' = "done"
    /\ UNCHANGED <<mode, results_data, results_by_type, todo, output_cls,
                   out_branch, out_commit, out_data, by_test, report, input_file,
                   of_data>>
    /\ UNCHANGED <<varsLoad, varsDiff>>

RECURSIVE WriteAll(_, _, _, _)
WriteAll(diffs, names, key_rank, data) ==
    IF names = <<>> THEN data
    ELSE WriteAll(diffs, Tail(names), key_rank,
                  JsonWrite(data, Head(names), diffs[Head(names)], key_rank))

\* The file output_file is given was written by a JSONOutput from a report:
\* write for every suite, then end.
WriteReport ==
    /\ mode = "file" /\ pc = "write_report"
    /\ \E key_rank \in Orders(UNION {KeysOf(report.differences[n]) :
                                       n \in DOMAIN report.differences}) :
         input_file' = JsonDump(report.branch, report.commit,
                                WriteAll(report.differences,
                                         Sorted(DOMAIN report.differences),
                                         key_rank, EmptyDict))
    /\ pc' = "load"
    /\ UNCHANGED <<mode, results_data, results_by_type, todo, output_cls,
                   out_branch, out_commit, out_data, dest, calls, by_test, report,
                   of_data>>
    /\ UNCHANGED <<varsLoad, varsDiff>>

\* output_file: data = json.load(input_file), the conversion of every list
\* of items to a dict, and output = output_cls(branch, commit, dest)
OutputFileLoad ==
    /\ mode = "file" /\ pc = "load"
    /\ LET data == JsonLoad(input_file)
       IN  /\ of_data' = [name \in DOMAIN data.differences |->
                            [p \in DOMAIN data.differences[name] |->
                                ToDict(data.differences[name][p])]]
           /\ out_branch' = data.branch
           /\ out_commit' = data.commit
    /\ pc' = "start"
    /\ UNCHANGED <<mode, results_data, results_by_type, todo, output_cls,
                   out_data, dest, calls, by_test, report, input_file>>
    /\ UNCHANGED <<varsLoad, varsDiff>>

\* output_file: output.start()
OutputFileStart ==
    /\ mode = "file" /\ pc = "start"
    /\ OutputStart(DOMAIN of_data)
    /\ pc' = "loop"
    /\ UNCHANGED <<mode, results_data, results_by_type, output_cls, out_branch,
                   out_commit, out_data, by_test, report, input_file, of_data>>
    /\ UNCHANGED <<varsLoad, varsDiff>>

\* output_file: one turn of the loop over the suites
OutputFileWrite ==
    /\ mode = "file" /\ pc = "loop"
    /\ todo # <<>>
    /\ OutputWrite(Head(todo), of_data[Head(todo)])
    /\ todo' = Tail(todo)
    /\ UNCHANGED <<mode, pc, results_data, results_by_type, output_cls, out_branch,
                   out_commit, report, input_file, of_data>>
    /\ UNCHANGED <<varsLoad, varsDiff>>

\* output_file: output.end()
OutputFileEnd ==
    /\ mode = "file" /\ pc = "loop"
    /\ todo = <<>>
    /\ OutputEnd
    /\ pc' = "done"
    /\ UNCHANGED <<mode, results_data, results_by_type, todo, output_cls,
                   out_branch, out_commit, out_data, by_test, report, input_file,
                   of_data>>
    /\ UNCHANGED <<varsLoad, varsDiff>>

Next ==
    \/ CompareGroup
    \/ CompareStart
    \/ CompareSuite
    \/ CompareEnd
    \/ WriteReport
    \/ OutputFileLoad
    \/ OutputFileStart
    \/ OutputFileWrite
    \/ OutputFileEnd

Spec == Init /\ [][Next]_vars

-----------------------------------------------------------------------------
(* Properties of compare and output_file *)

\* C5: in the map group_by_test returns, every list of platform ids is in
\* sorted order, whatever order by_platform is iterated in.
C5_PlatformListsAreSorted ==
    \A test \in DOMAIN by_test : \A pair \in DOMAIN by_test[test] :
        LET platforms == by_test[test][pair]
        IN  \A i, j \in 1..Len(platforms) :
                i < j => StrLess(platforms[i], platforms[j])

IsWrite(c) == c.op = "write"

\* The suites the run has to write
SuitesOfRun ==
    IF mode = "live" THEN DOMAIN results_by_type ELSE DOMAIN report.differences

\* C7: the output object gets start() once and first, then one write() for
\* each suite in ascending order of the suite names, none twice, then end()
\* once and last; a run that completed has made all of these calls.
C7_StartThenSortedWritesThenEnd ==
    /\ calls # <<>> => calls[1].op = "start"
    /\ \A i \in 2..Len(calls) : calls[i].op # "start"
    /\ \A i \in 1..Len(calls) : calls[i].op = "end" => i = Len(calls)
    /\ \A i, j \in 1..Len(calls) :
         (i < j /\ IsWrite(calls[i]) /\ IsWrite(calls[j])) =>
             StrLess(calls[i].job_type_name, calls[j].job_type_name)
    /\ pc = "done" =>
         /\ Len(calls) >= 2
         /\ calls[Len(calls)].op = "end"
         /\ {calls[i].job_type_name : i \in {j \in 1..Len(calls) : IsWrite(calls[j])}}
                = SuitesOfRun

\* A live run that wrote two suites has completed.
C7_Witness ==
    /\ mode = "live"
    /\ pc = "done"
    /\ Len(calls) = 4

\* C8: what output_file rebuilds from a document JSONOutput wrote is the
\* report written: the same suites and platforms, for each platform the same
\* (test, subtest) keys with the same [non_e10s, e10s] value each, and the
\* same branch and commit.
C8_LoadedReportIsTheReportWritten ==
    (mode = "file" /\ pc \in {"start", "loop", "done"}) =>
        /\ out_branch = report.branch
        /\ out_commit = report.commit
        /\ DOMAIN of_data = DOMAIN report.differences
        /\ \A name \in DOMAIN report.differences :
             /\ DOMAIN of_data[name] = DOMAIN report.differences[name]
             /\ \A p \in DOMAIN report.differences[name] :
                  /\ DOMAIN of_data[name][p] = DOMAIN report.differences[name][p]
                  /\ \A k \in DOMAIN report.differences[name][p] :
                       of_data[name][p][k] = report.differences[name][p][k]

\* A report of two suites, one of them with two platforms and two entries
\* for a platform, has been written and loaded.
C8_Witness ==
    /\ mode = "file"
    /\ pc = "start"
    /\ Cardinality(DOMAIN report.differences) = 2
    /\ \E name \in DOMAIN report.differences :
         /\ Cardinality(DOMAIN report.differences[name]) = 2
         /\ \E p \in DOMAIN report.differences[name] :
              Cardinality(DOMAIN report.differences[name][p]) = 2

\* The places <<suite, platform id, index, position>> of results_by_type
\* that hold job
Slots(job) ==
    UNION {UNION {UNION {{<<c, p, k, n>> :
                            n \in {m \in 1..Len(results_by_type[c][p][k]) :
                                     results_by_type[c][p][k][m] = job}} :
                         k \in 1..Len(results_by_type[c][p])} :
                  p \in DOMAIN results_by_type[c]} :
           c \in DOMAIN results_by_type}

\* C9: group_results_by_type puts every job whose job type name is a key of
\* JOB_NAMES in exactly one slot, that of its suite, of its platform id
\* (platform, then a space and the platform option when there is one) and of
\* its mode (first list non-e10s, second list e10s), and every other job in
\* no slot; every platform entry holds exactly two lists.
C9_EveryJobInItsOneSlot ==
    (mode = "live" /\ pc # "group") =>
        /\ \A i \in 1..Len(results_data) :
             LET job == results_data[i]
                 name == job.job_type_name
                 platform_id == IF Len(job.platform_option) > 0
                                THEN job.platform \o <<32>> \o job.platform_option
                                ELSE job.platform
             IN  IF name \in DOMAIN JOB_NAMES
                 THEN /\ Cardinality(Slots(job)) = 1
                      /\ \A slot \in Slots(job) :
                           /\ slot[1] = JOB_NAMES[name][1]
                           /\ slot[2] = platform_id
                           /\ slot[3] = (IF JOB_NAMES[name][2] THEN 2 ELSE 1)
                 ELSE Slots(job) = {}
        /\ \A c \in DOMAIN results_by_type : \A p \in DOMAIN results_by_type[c] :
             Len(results_by_type[c][p]) = 2

\* Three jobs were grouped: one of no known type, one with a platform option.
C9_Witness ==
    /\ mode = "live"
    /\ pc = "start"
    /\ Len(results_data) = 3
    /\ \E i \in 1..3 : results_data[i].job_type_name \notin DOMAIN JOB_NAMES
    /\ \E i \in 1..3 : /\ results_data[i].job_type_name \in DOMAIN JOB_NAMES
                       /\ results_data[i].platform_option = DEBUG
    /\ \E c \in DOMAIN results_by_type : \E p \in DOMAIN results_by_type[c] :
         Len(results_by_type[c][p][2]) > 0

KnownSuites == {JOB_NAMES[n][1] : n \in DOMAIN JOB_NAMES}

HasRecognizedJob(suite) ==
    \E i \in 1..Len(results_data) :
        /\ results_data[i].job_type_name \in DOMAIN JOB_NAMES
        /\ JOB_NAMES[results_data[i].job_type_name][1] = suite

\* The text and HTML output hold the heading of suite followed by "No logs
\* found"; the JSON document holds an empty platform map under suite.
RenderedNoLogsFound(suite) ==
    IF output_cls = "json"
    THEN /\ dest # <<>>
         /\ suite \in DOMAIN dest[Len(dest)].differences
         /\ DOMAIN dest[Len(dest)].differences[suite] = {}
    ELSE \E i \in 1..(Len(dest) - 1) :
            /\ dest[i].kind \in {"heading", "h2"}
            /\ dest[i].text = suite
            /\ dest[i + 1].kind \in {"line", "p"}
            /\ dest[i + 1].text = NO_LOGS_FOUND

\* Nothing of the output is about suite
NotRendered(suite) ==
    /\ \A i \in 1..Len(calls) : IsWrite(calls[i]) => calls[i].job_type_name # suite
    /\ IF output_cls = "json"
       THEN \A i \in 1..Len(dest) : suite \notin DOMAIN dest[i].differences
       ELSE \A i \in 1..Len(dest) :
               dest[i].kind \in {"heading", "h2"} => dest[i].text # suite

\* C10 as stated: on a live run, a suite of which the job list holds no
\* recognized job is rendered as "No logs found" by the text and HTML
\* renderers and as an empty platform map in the JSON document.
C10_SuiteWithoutJobsIsRenderedNoLogsFound ==
    (mode = "live" /\ pc = "done") =>
        \A suite \in KnownSuites : ~HasRecognizedJob(suite) => RenderedNoLogsFound(suite)

\* C10, amended: on a live run, a suite written with an empty platform map
\* (every platform of it has jobs of both modes, and no log of them gave a
\* status entry) is rendered as "No logs found" by the text and HTML
\* renderers and as an empty platform map in the JSON document; a suite of
\* which the job list holds no recognized job is not rendered at all.
C10_EmptyPlatformMapIsRenderedNoLogsFound ==
    (mode = "live" /\ pc = "done") =>
        /\ \A suite \in KnownSuites : ~HasRecognizedJob(suite) => NotRendered(suite)
        /\ \A i \in 1..Len(calls) :
             (IsWrite(calls[i]) /\ DOMAIN calls[i].by_platform = {}) =>
                 /\ HasRecognizedJob(calls[i].job_type_name)
                 /\ RenderedNoLogsFound(calls[i].job_type_name)

\* A live run wrote a suite with an empty platform map, with the text or
\* HTML renderer.
C10_Witness ==
    /\ mode = "live"
    /\ pc = "done"
    /\ output_cls # "json"
    /\ \E i \in 1..Len(calls) : IsWrite(calls[i]) /\ DOMAIN calls[i].by_platform = {}

=============================================================================
